---- MODULE Spec2Model ----
(***************************************************************************)
(* Model of ch341_factory.py: the eepCH341 EEPROM image descriptor, its    *)
(* image builder bytes(), the four device operations that shell out to the *)
(* external ch341eeprom tool, and the batch programming loop of __main__.  *)
(*                                                                         *)
(* Strings are sequences of character codes and a bytearray is a sequence  *)
(* of byte values.  Python indexes from 0 and TLA+ from 1: byte k of a     *)
(* buffer is element k + 1 of the sequence (see Byte).                     *)
(***************************************************************************)
EXTENDS Integers, Sequences, FiniteSets, TLC

(***************************************************************************)
(* Bounds of the model.                                                    *)
(***************************************************************************)
\* Longest product string tried (the constructor's limit is 95).
MaxProductLen == 96
\* Units fully programmed before the model stops following the loop.
MaxIter == 3

(***************************************************************************)
(* Program constants.                                                      *)
(***************************************************************************)
DefaultSizeBytes == 256
DefaultMODE == 18
DefaultCFG == 204
DefaultSerial == 13374204
DefaultMajorVersion == 1
DefaultMinorVersion == 2
DefaultSizeStr == "24c02"
DefaultVID == <<26, 134>>
DefaultPID == <<85, 18>>
\* "MESHTOAD"
DefaultProduct == <<77, 69, 83, 72, 84, 79, 65, 68>>

READ_FILE == "read_eeprom.bin"
WRITE_FILE == "write_eeprom.bin"
VERIFY_FILE == "verify_eeprom.bin"
TempFiles == {READ_FILE, WRITE_FILE, VERIFY_FILE}

(***************************************************************************)
(* Python primitives used by the program.                                  *)
(***************************************************************************)
Min(a, b) == IF a < b THEN a ELSE b
Max(a, b) == IF a > b THEN a ELSE b

\* The decimal digits of a natural number, as character codes.
RECURSIVE Digits(_)
Digits(n) == IF n < 10 THEN <<48 + n>> ELSE Digits(n \div 10) \o <<48 + (n % 10)>>

\* str(n) of an int: decimal digits, with a leading '-' for a negative one.
Str(n) == IF n < 0 THEN <<45>> \o Digits(0 - n) ELSE Digits(n)

\* bytearray(n): n zero bytes.
ZeroBytes(n) == [i \in 1..n |-> 0]

\* Byte k (0-based) of a buffer.
Byte(rom, k) == rom[k + 1]

\* rom[k] = v for a 0-based k inside the buffer.
SetByte(rom, k, v) == [rom EXCEPT ![k + 1] = v]

\* rom[start:stop] = val. Python clamps both ends of the slice to the length of
\* the buffer and replaces the slice by val, whatever the two lengths are: the
\* buffer grows or shrinks by the difference.
SliceAssign(rom, start, stop, val) ==
  LET lo == Min(start, Len(rom))
      hi == Max(lo, Min(stop, Len(rom)))
  IN  SubSeq(rom, 1, lo) \o val \o SubSeq(rom, hi + 1, Len(rom))

(***************************************************************************)
(* class eepCH341                                                          *)
(***************************************************************************)
NoError == "none"
SerialError == "ValueError: Serial number must be 8 digits"
ProductError == "ValueError: Product string too long, max 95 characters"
ReadSizeError == "ValueError: EEPROM read error"
CalledProcessError == "CalledProcessError"
FileNotFoundError == "FileNotFoundError"
IndexError == "IndexError"
KeyboardInterrupt == "KeyboardInterrupt"

\* __init__ with the product limit off by one (accepts 95 characters).
eepCH341_init_loose(majorVersion, minorVersion, serial, product, size_str, size_bytes, MODE, CFG, VID, PID) ==
  [raised |-> IF Len(serial) # 8 THEN SerialError
              ELSE IF ~(Len(product) <= 95) THEN ProductError
              ELSE NoError,
   self |-> [size |-> size_str, size_bytes |-> size_bytes,
             majorVersion |-> majorVersion, minorVersion |-> minorVersion,
             serial |-> serial, product |-> product,
             MODE |-> MODE, CFG |-> CFG, VID |-> VID, PID |-> PID]]

\* __init__ rejecting only a serial that is too short (len(serial) >= 8 passes).
eepCH341_init_long_serial(majorVersion, minorVersion, serial, product, size_str, size_bytes, MODE, CFG, VID, PID) ==
  [raised |-> IF ~(Len(serial) >= 8) THEN SerialError
              ELSE IF ~(Len(product) < 95) THEN ProductError
              ELSE NoError,
   self |-> [size |-> size_str, size_bytes |-> size_bytes,
             majorVersion |-> majorVersion, minorVersion |-> minorVersion,
             serial |-> serial, product |-> product,
             MODE |-> MODE, CFG |-> CFG, VID |-> VID, PID |-> PID]]

\* eepCH341.__init__: the object built, or the exception raised (the serial is
\* checked before the product).
eepCH341_init(majorVersion, minorVersion, serial, product, size_str, size_bytes, MODE, CFG, VID, PID) ==
  [raised |-> IF Len(serial) # 8 THEN SerialError
              ELSE IF ~(Len(product) < 95) THEN ProductError
              ELSE NoError,
   self |-> [size |-> size_str, size_bytes |-> size_bytes,
             majorVersion |-> majorVersion, minorVersion |-> minorVersion,
             serial |-> serial, product |-> product,
             MODE |-> MODE, CFG |-> CFG, VID |-> VID, PID |-> PID]]

\* The ten indexed stores rom[0] .. rom[9] of bytes(). VID and PID are Python
\* tuples: VID[1] there is the second element, VID[2] here.
Header(self, rom) ==
  LET r0 == SetByte(rom, 0, 83)
      r1 == SetByte(r0, 1, self.MODE)
      r2 == SetByte(r1, 2, self.CFG)
      r3 == SetByte(r2, 3, 0)
      r4 == SetByte(r3, 4, self.VID[2])
      r5 == SetByte(r4, 5, self.VID[1])
      r6 == SetByte(r5, 6, self.PID[2])
      r7 == SetByte(r6, 7, self.PID[1])
      r8 == SetByte(r7, 8, self.minorVersion)
  IN  SetByte(r8, 9, self.majorVersion)

\* bytes() with the serial stored into its full eight-byte slice rom[16:24].
bytes_slice24(self) ==
  LET rom == ZeroBytes(self.size_bytes - 1)
  IN  IF Len(rom) < 10
      THEN [raised |-> IndexError, rom |-> <<>>]
      ELSE [raised |-> NoError,
            rom |-> SliceAssign(SliceAssign(Header(self, rom), 16, 24, self.serial),
                                32, 32 + Len(self.product), self.product)]

\* bytes() with the vendor ID stored in input order.
bytes_vid_unswapped(self) ==
  LET rom == ZeroBytes(self.size_bytes - 1)
      swapped == [self EXCEPT !.VID = <<self.VID[2], self.VID[1]>>]
  IN  IF Len(rom) < 10
      THEN [raised |-> IndexError, rom |-> <<>>]
      ELSE [raised |-> NoError,
            rom |-> SliceAssign(SliceAssign(Header(swapped, rom), 16, 23, self.serial),
                                32, 32 + Len(self.product), self.product)]

\* eepCH341.bytes: a buffer of size_bytes - 1 zero bytes, the ten header bytes
\* (an IndexError when the buffer is shorter than that), then the two slice
\* assignments. The serial's slice rom[16:23] is seven bytes long and receives
\* eight.
bytes(self) ==
  LET rom == ZeroBytes(self.size_bytes - 1)
  IN  IF Len(rom) < 10
      THEN [raised |-> IndexError, rom |-> <<>>]
      ELSE [raised |-> NoError,
            rom |-> SliceAssign(SliceAssign(Header(self, rom), 16, 23, self.serial),
                                32, 32 + Len(self.product), self.product)]

(***************************************************************************)
(* The external tool. It is a black box: an invocation ends with an exit   *)
(* status, and a --read invocation may or may not leave its output file,   *)
(* of any length, behind.                                                  *)
(***************************************************************************)
ExitStatus == {0, 1}
ReadLens == {0, DefaultSizeBytes - 1, DefaultSizeBytes, DefaultSizeBytes + 1}
ReadOutcomes == [rc : ExitStatus, creates : BOOLEAN, len : ReadLens]

\* erase() running the tool without check=True: the exit status is ignored.
erase_unchecked(self, rc) == [raised |-> NoError]

\* eepCH341.erase: subprocess.run(..., check=True) raises on a non-zero exit.
erase(self, rc) == [raised |-> IF rc # 0 THEN CalledProcessError ELSE NoError]

\* read() without the os.remove that follows the load of the file.
read_keep(self, fs, tool) ==
  LET fs1 == fs \ {READ_FILE}
      fs2 == IF tool.creates THEN fs1 \cup {READ_FILE} ELSE fs1
  IN  IF tool.rc # 0 THEN [raised |-> CalledProcessError, data |-> 0, files |-> fs2]
      ELSE IF READ_FILE \notin fs2
           THEN [raised |-> FileNotFoundError, data |-> 0, files |-> fs2]
           ELSE [raised |-> NoError, data |-> tool.len, files |-> fs2]

\* eepCH341.read: remove a stale read_eeprom.bin, run the tool (check=True),
\* load the file the tool wrote and remove it. data is the number of bytes
\* loaded: the program uses nothing else of them.
read(self, fs, tool) ==
  LET fs1 == fs \ {READ_FILE}
      fs2 == IF tool.creates THEN fs1 \cup {READ_FILE} ELSE fs1
  IN  IF tool.rc # 0 THEN [raised |-> CalledProcessError, data |-> 0, files |-> fs2]
      ELSE IF READ_FILE \notin fs2
           THEN [raised |-> FileNotFoundError, data |-> 0, files |-> fs2]
           ELSE [raised |-> NoError, data |-> tool.len, files |-> fs2 \ {READ_FILE}]

\* The body shared by flash() and verify(): remove a stale file, create it
\* (open "wb"), write bytes() into it, run the tool on it (check=True) and
\* remove it. invoked tells whether the tool was run at all and image is what
\* the file handed to it.
WriteAndRun(self, fs, rc, file) ==
  LET fs2 == (fs \ {file}) \cup {file}
      b == bytes(self)
  IN  IF b.raised # NoError
      THEN [raised |-> b.raised, files |-> fs2, invoked |-> FALSE, image |-> <<>>]
      ELSE IF rc # 0
           THEN [raised |-> CalledProcessError, files |-> fs2, invoked |-> TRUE,
                 image |-> b.rom]
           ELSE [raised |-> NoError, files |-> fs2 \ {file}, invoked |-> TRUE,
                 image |-> b.rom]

\* flash() without its final os.remove.
flash_keep(self, fs, rc) ==
  [WriteAndRun(self, fs, rc, WRITE_FILE) EXCEPT !.files = @ \cup {WRITE_FILE}]

\* eepCH341.flash
flash(self, fs, rc) == WriteAndRun(self, fs, rc, WRITE_FILE)

\* eepCH341.verify
verify(self, fs, rc) == WriteAndRun(self, fs, rc, VERIFY_FILE)

\* The serial field of an image: bytes 16..23.
SerialOf(image) == SubSeq(image, 17, 24)

(***************************************************************************)
(* State.                                                                  *)
(*   args        the parsed command line (serial, product, versions)       *)
(*   cur_serial  the loop's serial counter                                 *)
(*   eeprom      the descriptor bound to `eeprom` (<<>> while unbound)     *)
(*   read_init   len(read_init)  (<<>> while unbound)                      *)
(*   read_again  len(read_again) (<<>> while unbound)                      *)
(*   rom         the result of a direct bytes() call (<<>> before it)      *)
(*   files       the temporary files that exist in the working directory   *)
(*   pc          the statement the script is at                            *)
(*   error       the exception that ended the script (NoError while none)  *)
(* History of the run, observed but never read by the program:             *)
(*   steps       the steps of the current iteration, in order (emptied     *)
(*               when the iteration ends)                                  *)
(*   prompted    the serial shown by the last prompt                       *)
(*   flashed     per --write invocation: the serial in the image handed to *)
(*               the tool and the serial last prompted                     *)
(*   completed   the number of increments of the counter                   *)
(*   made        the temporary files left behind by operations of this run *)
(*   stale       the temporary files that existed when the run started     *)
(*   failure     the steps and counter at the first non-zero exit status   *)
(***************************************************************************)
VARIABLES args, cur_serial, eeprom, read_init, read_again, rom, files, pc, error,
          steps, prompted, flashed, completed, made, stale, failure

vars == <<args, cur_serial, eeprom, read_init, read_again, rom, files, pc, error,
          steps, prompted, flashed, completed, made, stale, failure>>

\* The first n characters of "MESHTOADMESHTOAD...".
ProductOf(n) == [i \in 1..n |-> DefaultProduct[((i - 1) % 8) + 1]]

\* Command lines tried: serials around both ends of the eight-character range
\* and products around the constructor's limit.
StartSerials == {DefaultSerial, 9999999, 99999998, 99999999, 0 - 1000001}
Products == {DefaultProduct, ProductOf(94), ProductOf(95), ProductOf(MaxProductLen)}

Init ==
  /\ args \in [serial : StartSerials, product : Products,
               majorVersion : {DefaultMajorVersion}, minorVersion : {DefaultMinorVersion}]
  /\ cur_serial = args.serial
  /\ eeprom = <<>>
  /\ read_init = <<>>
  /\ read_again = <<>>
  /\ rom = <<>>
  /\ files \in SUBSET TempFiles
  /\ stale = files
  /\ made = {}
  /\ pc = "prompt"
  /\ error = NoError
  /\ steps = <<>>
  /\ prompted = <<>>
  /\ flashed = <<>>
  /\ completed = 0
  /\ failure = <<>>

\* An uncaught exception ends the script.
Raise(e) == pc' = "aborted" /\ error' = e

\* The files an operation on file f leaves behind: the operation removes f
\* first, so an f that exists when it ends is one it made.
MadeAfter(f, fs) == (made \ {f}) \cup ({f} \cap fs)

\* The first non-zero exit status of the run.
Failed(rc, step) ==
  IF rc # 0 /\ failure = <<>>
  THEN <<[steps |-> Append(steps, step), cur_serial |-> cur_serial]>>
  ELSE failure

\* input(f"Attach serial number: {cur_serial}") returns: the operator confirmed.
Prompt ==
  /\ pc = "prompt"
  /\ prompted' = Str(cur_serial)
  /\ steps' = <<"prompt">>
  /\ pc' = "construct"
  /\ UNCHANGED <<args, cur_serial, eeprom, read_init, read_again, rom, files, error,
                 flashed, completed, made, stale, failure>>

\* The operator ends the process at the prompt instead.
Interrupt ==
  /\ pc = "prompt"
  /\ Raise(KeyboardInterrupt)
  /\ UNCHANGED <<args, cur_serial, eeprom, read_init, read_again, rom, files,
                 steps, prompted, flashed, completed, made, stale, failure>>

\* eeprom = eepCH341(args.majorVersion, args.minorVersion, str(cur_serial), args.product)
Construct ==
  /\ pc = "construct"
  /\ LET r == eepCH341_init(args.majorVersion, args.minorVersion, Str(cur_serial),
                            args.product, DefaultSizeStr, DefaultSizeBytes,
                            DefaultMODE, DefaultCFG, DefaultVID, DefaultPID)
     IN  IF r.raised # NoError
         THEN Raise(r.raised) /\ UNCHANGED eeprom
         ELSE eeprom' = <<r.self>> /\ pc' = "read_init" /\ UNCHANGED error
  /\ steps' = Append(steps, "construct")
  /\ UNCHANGED <<args, cur_serial, read_init, read_again, rom, files,
                 prompted, flashed, completed, made, stale, failure>>

\* read_init = eeprom.read(args.bin)
ReadInit ==
  /\ pc = "read_init"
  /\ \E tool \in ReadOutcomes :
       LET r == read(eeprom[1], files, tool)
       IN  /\ files' = r.files
           /\ made' = MadeAfter(READ_FILE, r.files)
           /\ failure' = Failed(tool.rc, "read")
           /\ IF r.raised # NoError
              THEN Raise(r.raised) /\ UNCHANGED read_init
              ELSE read_init' = <<r.data>> /\ pc' = "check_len" /\ UNCHANGED error
  /\ steps' = Append(steps, "read")
  /\ UNCHANGED <<args, cur_serial, eeprom, read_again, rom, prompted, flashed,
                 completed, stale>>

\* The length check left out: the loop goes on to erase whatever was read.
CheckLenSkipped ==
  /\ pc = "check_len"
  /\ pc' = "erase"
  /\ UNCHANGED <<args, cur_serial, eeprom, read_init, read_again, rom, files, error,
                 steps, prompted, flashed, completed, made, stale, failure>>

\* if len(read_init) != eeprom.size_bytes: raise ValueError(...)
CheckLen ==
  /\ pc = "check_len"
  /\ IF read_init[1] # eeprom[1].size_bytes
     THEN Raise(ReadSizeError)
     ELSE pc' = "erase" /\ UNCHANGED error
  /\ UNCHANGED <<args, cur_serial, eeprom, read_init, read_again, rom, files,
                 steps, prompted, flashed, completed, made, stale, failure>>

\* eeprom.erase(args.bin)
Erase ==
  /\ pc = "erase"
  /\ \E rc \in ExitStatus :
       /\ failure' = Failed(rc, "erase")
       /\ IF erase(eeprom[1], rc).raised # NoError
          THEN Raise(erase(eeprom[1], rc).raised)
          ELSE pc' = "flash" /\ UNCHANGED error
  /\ steps' = Append(steps, "erase")
  /\ UNCHANGED <<args, cur_serial, eeprom, read_init, read_again, rom, files,
                 prompted, flashed, completed, made, stale>>

\* eeprom.flash(args.bin)
Flash ==
  /\ pc = "flash"
  /\ \E rc \in ExitStatus :
       LET r == flash(eeprom[1], files, rc)
       IN  /\ files' = r.files
           /\ made' = MadeAfter(WRITE_FILE, r.files)
           /\ failure' = IF r.invoked THEN Failed(rc, "flash") ELSE failure
           /\ steps' = IF r.invoked THEN Append(steps, "flash") ELSE steps
           /\ flashed' = IF r.invoked
                         THEN Append(flashed, [serial |-> SerialOf(r.image),
                                               prompted |-> prompted])
                         ELSE flashed
           /\ IF r.raised # NoError
              THEN Raise(r.raised)
              ELSE pc' = "verify" /\ UNCHANGED error
  /\ UNCHANGED <<args, cur_serial, eeprom, read_init, read_again, rom,
                 prompted, completed, stale>>

\* eeprom.verify(args.bin), then the "Flashed EEPROM for ..." report.
Verify ==
  /\ pc = "verify"
  /\ \E rc \in ExitStatus :
       LET r == verify(eeprom[1], files, rc)
       IN  /\ files' = r.files
           /\ made' = MadeAfter(VERIFY_FILE, r.files)
           /\ failure' = IF r.invoked THEN Failed(rc, "verify") ELSE failure
           /\ steps' = IF r.invoked THEN Append(steps, "verify") ELSE steps
           /\ IF r.raised # NoError
              THEN Raise(r.raised)
              ELSE pc' = "read_again" /\ UNCHANGED error
  /\ UNCHANGED <<args, cur_serial, eeprom, read_init, read_again, rom,
                 prompted, flashed, completed, stale>>

\* read_again = eeprom.read(args.bin), then the print of read_again[0:127].
ReadAgain ==
  /\ pc = "read_again"
  /\ \E tool \in ReadOutcomes :
       LET r == read(eeprom[1], files, tool)
       IN  /\ files' = r.files
           /\ made' = MadeAfter(READ_FILE, r.files)
           /\ failure' = Failed(tool.rc, "read")
           /\ IF r.raised # NoError
              THEN Raise(r.raised) /\ UNCHANGED read_again
              ELSE read_again' = <<r.data>> /\ pc' = "incr" /\ UNCHANGED error
  /\ steps' = Append(steps, "read")
  /\ UNCHANGED <<args, cur_serial, eeprom, read_init, rom, prompted, flashed,
                 completed, stale>>

\* The loop going round without the increment.
IncrementForgotten ==
  /\ pc = "incr"
  /\ completed < MaxIter
  /\ completed' = completed + 1
  /\ steps' = <<>>
  /\ pc' = "prompt"
  /\ UNCHANGED <<args, cur_serial, eeprom, read_init, read_again, rom, files, error,
                 prompted, flashed, made, stale, failure>>

\* cur_serial += 1, and back to the top of `while True`.
Increment ==
  /\ pc = "incr"
  /\ completed < MaxIter
  /\ cur_serial' = cur_serial + 1
  /\ completed' = completed + 1
  /\ steps' = <<>>
  /\ pc' = "prompt"
  /\ UNCHANGED <<args, eeprom, read_init, read_again, rom, files, error,
                 prompted, flashed, made, stale, failure>>

Next ==
  \/ Prompt
  \/ Interrupt
  \/ Construct
  \/ ReadInit
  \/ CheckLen
  \/ Erase
  \/ Flash
  \/ Verify
  \/ ReadAgain
  \/ Increment

Spec == Init /\ [][Next]_vars

(***************************************************************************)
(* The image builder on its own: a descriptor is constructed from inputs   *)
(* of every shape and bytes() is called on it.                             *)
(***************************************************************************)
SerialInputs == {Str(DefaultSerial), Str(9999999), Str(100000000), Str(0 - 1234567), <<>>}
ProductLens == {0, 1, 8, 31, 93, 94, 95, MaxProductLen}
SizeBytesInputs == {1, 10, 11, 17, 20, 24, 31, 32, 40, 126, 127, DefaultSizeBytes}
VersionInputs == {0, DefaultMajorVersion, DefaultMinorVersion, 255}
IdInputs == {DefaultVID, DefaultPID}

InitBytes ==
  /\ args = [serial |-> DefaultSerial, product |-> DefaultProduct,
             majorVersion |-> DefaultMajorVersion, minorVersion |-> DefaultMinorVersion]
  /\ cur_serial = args.serial
  /\ eeprom = <<>>
  /\ read_init = <<>>
  /\ read_again = <<>>
  /\ rom = <<>>
  /\ files = {}
  /\ stale = {}
  /\ made = {}
  /\ pc = "new"
  /\ error = NoError
  /\ steps = <<>>
  /\ prompted = <<>>
  /\ flashed = <<>>
  /\ completed = 0
  /\ failure = <<>>

\* eeprom = eepCH341(majorVersion, minorVersion, serial, product, size_bytes=..., VID=..., PID=...)
NewDescriptor ==
  /\ pc = "new"
  /\ \E major \in VersionInputs, serial \in SerialInputs, n \in ProductLens,
        size_bytes \in SizeBytesInputs, VID \in IdInputs :
       LET r == eepCH341_init(major, DefaultMinorVersion, serial, ProductOf(n),
                              DefaultSizeStr, size_bytes, DefaultMODE, DefaultCFG,
                              VID, DefaultPID)
       IN  IF r.raised # NoError
           THEN Raise(r.raised) /\ UNCHANGED eeprom
           ELSE eeprom' = <<r.self>> /\ pc' = "constructed" /\ UNCHANGED error
  /\ UNCHANGED <<args, cur_serial, read_init, read_again, rom, files,
                 steps, prompted, flashed, completed, made, stale, failure>>

\* rom = eeprom.bytes()
CallBytes ==
  /\ pc = "constructed"
  /\ rom' = <<bytes(eeprom[1])>>
  /\ pc' = "built"
  /\ UNCHANGED <<args, cur_serial, eeprom, read_init, read_again, files, error,
                 steps, prompted, flashed, completed, made, stale, failure>>

NextBytes ==
  \/ NewDescriptor
  \/ CallBytes

SpecBytes == InitBytes /\ [][NextBytes]_vars

(***************************************************************************)
(* Properties.                                                             *)
(***************************************************************************)
Order == <<"prompt", "construct", "read", "erase", "flash", "verify", "read">>
IsPrefix(s, t) == Len(s) <= Len(t) /\ SubSeq(t, 1, Len(s)) = s
ConstructionErrors == {SerialError, ProductError}
\* The ways the loop ends that the operator, the tool or the device cause.
Excused == {CalledProcessError, ReadSizeError, FileNotFoundError, KeyboardInterrupt}

\* The documented field map: the value of byte k of the image of self.
FieldMap(self, k) ==
  CASE k = 0 -> 83
    [] k = 1 -> self.MODE
    [] k = 2 -> self.CFG
    [] k = 3 -> 0
    [] k = 4 -> self.VID[2]
    [] k = 5 -> self.VID[1]
    [] k = 6 -> self.PID[2]
    [] k = 7 -> self.PID[1]
    [] k = 8 -> self.minorVersion
    [] k = 9 -> self.majorVersion
    [] k >= 16 /\ k <= 23 -> self.serial[k - 15]
    [] k >= 32 /\ k < 32 + Len(self.product) -> self.product[k - 31]
    [] OTHER -> 0

\* C1 as stated: for every valid descriptor the buffer returned by bytes() has
\* length exactly size_bytes - 1.
C1_LengthIsSizeMinusOne ==
  (pc = "built" /\ rom[1].raised = NoError)
    => Len(rom[1].rom) = eeprom[1].size_bytes - 1

\* C1 as amended: for every valid descriptor whose size_bytes is at least
\* 32 + len(product), bytes() returns a buffer of length exactly size_bytes
\* (the eight-byte serial stored into the seven-byte slice grows it by one).
C1_LengthIsSize ==
  (pc = "built" /\ eeprom[1].size_bytes >= 32 + Len(eeprom[1].product))
    => /\ rom[1].raised = NoError
       /\ Len(rom[1].rom) = eeprom[1].size_bytes

C1_Witness ==
  /\ pc = "built"
  /\ eeprom[1].size_bytes = DefaultSizeBytes
  /\ eeprom[1].serial = Str(DefaultSerial)
  /\ eeprom[1].product = DefaultProduct
  /\ Len(rom[1].rom) = DefaultSizeBytes

\* C2: for every valid descriptor whose buffer is large enough to hold the
\* product string at offset 32, every byte of the buffer bytes() returns is the
\* one the field map gives: the ten header bytes (IDs swapped), the serial at
\* 16..23, the product from 32 on, and zero everywhere else.
C2_FieldMap ==
  (pc = "built" /\ rom[1].raised = NoError
     /\ Len(rom[1].rom) >= 32 + Len(eeprom[1].product))
    => \A k \in 0..(Len(rom[1].rom) - 1) :
         Byte(rom[1].rom, k) = FieldMap(eeprom[1], k)

C2_Witness ==
  /\ pc = "built"
  /\ rom[1].raised = NoError
  /\ eeprom[1].size_bytes = DefaultSizeBytes
  /\ eeprom[1].VID = DefaultVID
  /\ Len(eeprom[1].product) = 94
  /\ Byte(rom[1].rom, 4) = 134
  /\ Byte(rom[1].rom, 5) = 26
  /\ SubSeq(rom[1].rom, 17, 24) = eeprom[1].serial
  /\ SubSeq(rom[1].rom, 33, 126) = eeprom[1].product
  /\ Byte(rom[1].rom, 126) = 0

C4_ReadSizeBeforeErase ==
  /\ (\E i \in DOMAIN steps : steps[i] \in {"erase", "flash", "verify"})
       => read_init = <<eeprom[1].size_bytes>>
  /\ (read_init # <<>> /\ read_init[1] # eeprom[1].size_bytes /\ pc # "check_len")
       => /\ pc = "aborted"
          /\ error = ReadSizeError
          /\ steps = <<"prompt", "construct", "read">>

C4_Witness ==
  /\ pc = "aborted"
  /\ error = ReadSizeError
  /\ read_init = <<DefaultSizeBytes - 1>>
  /\ steps = <<"prompt", "construct", "read">>

\* C5: once a tool invocation has exited non-zero the loop is over with the
\* tool's error: no further step is taken and the counter keeps the value it
\* had at that invocation.
C5_NonZeroExitAborts ==
  failure # <<>> =>
    /\ pc = "aborted"
    /\ error = CalledProcessError
    /\ steps = failure[1].steps
    /\ cur_serial = failure[1].cur_serial

C5_Witness ==
  /\ failure # <<>>
  /\ completed >= 1
  /\ steps = <<"prompt", "construct", "read", "erase">>

\* C6: when read, flash or verify has just returned successfully, its temporary
\* file does not exist.
C6_NoTempFileAfterSuccess ==
  /\ pc = "check_len" => READ_FILE \notin files
  /\ pc = "verify" => WRITE_FILE \notin files
  /\ pc = "read_again" => VERIFY_FILE \notin files
  /\ pc = "incr" => READ_FILE \notin files

C6_Witness ==
  /\ pc = "incr"
  /\ completed = 0
  /\ stale = TempFiles
  /\ files = {}

\* C7: no temporary file written for the tool by a flash or verify of this run
\* remains once the operation has ended, however it ended.
C7_TempFilesAlwaysDeleted ==
  made \cap {WRITE_FILE, VERIFY_FILE} = {}

\* C8 as stated: after a first successful iteration the loop never ends on its
\* own: it ends only by the operator, a tool failure or a bad read.
C8_NeverEndsOnItsOwn ==
  (pc = "aborted" /\ completed >= 1) => error \in Excused

C8_EndsOnItsOwnOnlyBySerial ==
  (pc = "aborted" /\ completed >= 1 /\ error \notin Excused)
    => /\ error = SerialError
       /\ Len(Str(cur_serial)) # 8
       /\ steps = <<"prompt", "construct">>

C8_NextIteration ==
  /\ pc = "incr" => (pc' = "prompt" /\ cur_serial' = cur_serial + 1)
  /\ (pc = "prompt" /\ pc' # "aborted") => (pc' = "construct" /\ prompted' = Str(cur_serial))
  /\ (pc = "construct" /\ completed >= 1 /\ Len(Str(cur_serial)) = 8)
       => (pc' = "read_init" /\ eeprom'[1].serial = Str(cur_serial))
  /\ (pc = "construct" /\ Len(Str(cur_serial)) # 8)
       => (pc' = "aborted" /\ error' = SerialError)

\* C8 as amended: each completed iteration with counter n is followed by a new
\* prompt for n + 1 and, while str(n + 1) still has 8 characters, by the
\* construction and the first read of the next iteration; the loop ends on its
\* own exactly when the incremented counter no longer has 8 characters (after
\* 99999999), where the construction raises.
C8_RepeatsUntilSerialOverflows ==
  [](C8_EndsOnItsOwnOnlyBySerial) /\ [][C8_NextIteration]_vars

C8_Witness ==
  /\ pc = "aborted"
  /\ completed >= 1
  /\ error = SerialError
  /\ cur_serial = 100000000

C9_Inv ==
  /\ IsPrefix(steps, Order)
  /\ Len(steps) >= 3 => (eeprom[1].serial = Str(cur_serial) /\ prompted = Str(cur_serial))
  /\ \A i \in DOMAIN flashed : flashed[i].serial = flashed[i].prompted
  /\ \A i, j \in DOMAIN flashed : i # j => flashed[i].serial # flashed[j].serial

C9_CounterStep ==
  cur_serial' # cur_serial
    => /\ cur_serial' = cur_serial + 1
       /\ steps = Order
       /\ pc = "incr"
       /\ error = NoError

\* C9: the steps of an iteration are a prefix of prompt, construct, read,
\* erase, flash, verify, read, all on the descriptor of the current counter;
\* the counter changes only by +1 after the post-flash read of a complete
\* iteration; every serial flashed is the one last prompted and no serial is
\* flashed twice.
C9_OrderAndCounter ==
  [](C9_Inv) /\ [][C9_CounterStep]_vars

C9_Witness ==
  /\ pc = "incr"
  /\ steps = Order
  /\ Len(flashed) = 3
  /\ completed = 2

\* C10 as stated: the counter is never advanced after a read (here the
\* post-flash one) whose length was not size_bytes.
C10_EveryReadChecked ==
  (pc = "prompt" /\ completed >= 1) => read_again = <<eeprom[1].size_bytes>>

\* C10 as amended: the caller verifies the length of the pre-flash read only:
\* the read-size-mismatch error is raised right after a pre-flash read of
\* another length and the counter is never advanced in an iteration whose
\* pre-flash read was not size_bytes long (the post-flash read is not checked).
C10_PreFlashReadChecked ==
  /\ (pc = "aborted" /\ error = ReadSizeError)
       => /\ steps = <<"prompt", "construct", "read">>
          /\ read_init[1] # eeprom[1].size_bytes
  /\ (pc \in {"incr", "prompt"} /\ read_init # <<>>)
       => read_init = <<eeprom[1].size_bytes>>

C10_Witness ==
  /\ pc = "prompt"
  /\ completed >= 1
  /\ read_init = <<DefaultSizeBytes>>
  /\ read_again = <<DefaultSizeBytes + 1>>

====
